---------------------------- MODULE Spec2Model ----------------------------
(***************************************************************************)
(* The patient triage agent: the extraction of a record from a completion  *)
(* text (nodes._parse_json), the five node functions (nodes.py), the       *)
(* router (graph.route_by_urgency) and the graph that build_graph wires    *)
(* (graph.py), run over the state of state.TriageAgentState.               *)
(*                                                                         *)
(* A Python value is a record [t |-> type, v |-> payload]; a text is a     *)
(* sequence of lexemes [k |-> kind, s |-> characters].  A string literal   *)
(* is one lexeme; the string literals of the lexicon hold no brace.        *)
(***************************************************************************)
EXTENDS Integers, Sequences, FiniteSets, TLC

VARIABLES
    pc,     \* pc[r]: where run r stands in the graph
    state,  \* state[r]: the TriageAgentState of run r
    trace,  \* trace[r]: the steps run r has taken, oldest first
    heard,  \* heard[r]: the completion texts the service returned to run r
    clock,  \* clock[r]: the times datetime.now() returned to run r
    pj,     \* one call of _parse_json: its arguments and what it did
    rt,     \* one call of route_by_urgency: its argument and what it did
    mg,     \* one state and one partial update, merged once and twice
    nd      \* one call of one node function: its arguments and what it did

vars == <<pc, state, trace, heard, clock, pj, rt, mg, nd>>

-----------------------------------------------------------------------------
(* Bounds *)

\* longest text of the exhaustive part of the _parse_json inputs
MaxTextLen == 3
\* longest run of prose before and after an embedded document
MaxAffixLen == 1
\* largest integer a number lexeme denotes
MaxInt == 11

-----------------------------------------------------------------------------
(* Python values *)

\* a str is a sequence of atoms, the unit the model does not look inside;
\* PyStr("a") is the one-atom string and PyStr("") the empty string
PyText(atoms) == [t |-> "str", v |-> SelectSeq(atoms, LAMBDA a : a # "")]
PyStr(s) == PyText(<<s>>)
PyInt(n) == [t |-> "int", v |-> n]
\* a float, in tenths: PyFloat(3) is 0.3
PyFloat(n) == [t |-> "float", v |-> n]
PyNone == [t |-> "none", v |-> "None"]
PyList(seq) == [t |-> "list", v |-> seq]
PyDict(f) == [t |-> "dict", v |-> f]
PyEmptyDict == PyDict(<<>>)

SetMin(S) == CHOOSE x \in S : \A y \in S : x <= y
SetMax(S) == CHOOSE x \in S : \A y \in S : x >= y

-----------------------------------------------------------------------------
(* Texts *)

Punct(c) == [k |-> "punct", s |-> c]
WS == [k |-> "ws", s |-> " "]
StrLit(s) == [k |-> "str", s |-> s]
IntLit(n) == [k |-> "int", s |-> ToString(n)]
FloatLit(n) == [k |-> "float", s |-> "0." \o ToString(n)]
NullLit == [k |-> "null", s |-> "null"]
Word(w) == [k |-> "word", s |-> w]

LBrace == Punct("{")
RBrace == Punct("}")
LBracket == Punct("[")
RBracket == Punct("]")
Colon == Punct(":")
Comma == Punct(",")

\* str.strip(): the text without its leading and trailing whitespace
Strip(text) ==
    LET idx == {i \in 1..Len(text) : text[i].k # "ws"}
    IN  IF idx = {} THEN <<>> ELSE SubSeq(text, SetMin(idx), SetMax(idx))

\* str.find(c): the 0-based index of the first c, or -1
Find(text, c) ==
    LET idx == {i \in 1..Len(text) : text[i] = Punct(c)}
    IN  IF idx = {} THEN -1 ELSE SetMin(idx) - 1

\* str.rfind(c): the 0-based index of the last c, or -1
RFind(text, c) ==
    LET idx == {i \in 1..Len(text) : text[i] = Punct(c)}
    IN  IF idx = {} THEN -1 ELSE SetMax(idx) - 1

\* text[start:end], with Python's reading of a negative or too large index
Slice(text, start, end) ==
    LET n == Len(text)
        lo == IF start < 0 THEN (IF n + start < 0 THEN 0 ELSE n + start)
              ELSE (IF start > n THEN n ELSE start)
        hi == IF end < 0 THEN (IF n + end < 0 THEN 0 ELSE n + end)
              ELSE (IF end > n THEN n ELSE end)
    IN  SubSeq(text, lo + 1, hi)

-----------------------------------------------------------------------------
(* json.loads *)

\* int(s) and float(s) of a number lexeme
IntValue(s) == CHOOSE n \in 0..MaxInt : ToString(n) = s
FloatValue(s) == CHOOSE n \in 0..9 : ("0." \o ToString(n)) = s

Parsed(val, next) == [ok |-> TRUE, val |-> val, next |-> next]
NoParse == [ok |-> FALSE, val |-> PyNone, next |-> 0]

RECURSIVE ParseValue(_, _)
RECURSIVE ParseElements(_, _, _)
RECURSIVE ParseMembers(_, _, _)

\* one JSON value starting at lexeme i of toks (whitespace already skipped)
ParseValue(toks, i) ==
    IF i > Len(toks) THEN NoParse
    ELSE LET tk == toks[i]
         IN  CASE tk.k = "str" -> Parsed(PyStr(tk.s), i + 1)
               [] tk.k = "int" -> Parsed(PyInt(IntValue(tk.s)), i + 1)
               [] tk.k = "float" -> Parsed(PyFloat(FloatValue(tk.s)), i + 1)
               [] tk.k = "null" -> Parsed(PyNone, i + 1)
               [] tk = LBracket ->
                    IF i + 1 <= Len(toks) /\ toks[i + 1] = RBracket
                    THEN Parsed(PyList(<<>>), i + 2)
                    ELSE ParseElements(toks, i + 1, <<>>)
               [] tk = LBrace ->
                    IF i + 1 <= Len(toks) /\ toks[i + 1] = RBrace
                    THEN Parsed(PyEmptyDict, i + 2)
                    ELSE ParseMembers(toks, i + 1, <<>>)
               [] OTHER -> NoParse

\* the elements of an array, after its "[" or a ","
ParseElements(toks, i, acc) ==
    LET r == ParseValue(toks, i)
    IN  IF ~r.ok \/ r.next > Len(toks) THEN NoParse
        ELSE IF toks[r.next] = Comma
             THEN ParseElements(toks, r.next + 1, Append(acc, r.val))
        ELSE IF toks[r.next] = RBracket
             THEN Parsed(PyList(Append(acc, r.val)), r.next + 1)
        ELSE NoParse

\* the members of an object, after its "{" or a ","; a repeated key keeps
\* its last value
ParseMembers(toks, i, acc) ==
    IF i + 1 > Len(toks) \/ toks[i].k # "str" \/ toks[i + 1] # Colon
    THEN NoParse
    ELSE LET r == ParseValue(toks, i + 2)
             now == (toks[i].s :> r.val) @@ acc
         IN  IF ~r.ok \/ r.next > Len(toks) THEN NoParse
             ELSE IF toks[r.next] = Comma
                  THEN ParseMembers(toks, r.next + 1, now)
             ELSE IF toks[r.next] = RBrace
                  THEN Parsed(PyDict(now), r.next + 1)
             ELSE NoParse

\* json.loads(text): the value the whole text denotes, or a JSONDecodeError
JsonLoads(text) ==
    LET toks == SelectSeq(text, LAMBDA tk : tk.k # "ws")
        r == ParseValue(toks, 1)
    IN  IF r.ok /\ r.next = Len(toks) + 1
        THEN [ok |-> TRUE, val |-> r.val]
        ELSE [ok |-> FALSE, val |-> PyNone]

-----------------------------------------------------------------------------
(* nodes._parse_json *)

\* what a call does: the exception it raised ("" for none), the value it
\* returned, and the texts it handed to json.loads, in order
Returned(val, loads) == [exc |-> "", ret |-> val, loads |-> loads]
Raised(exc, loads) == [exc |-> exc, ret |-> PyNone, loads |-> loads]

\* without the inner try: the second JSONDecodeError leaves the function
_parse_json_uncaught(text, fallback) ==
    LET stripped == Strip(text)
        whole == JsonLoads(stripped)
        start == Find(stripped, "{")
        end == RFind(stripped, "}") + 1
        sub == Slice(stripped, start, end)
        inner == JsonLoads(sub)
    IN  IF whole.ok THEN Returned(whole.val, <<stripped>>)
        ELSE IF start # -1 /\ end > start
             THEN IF inner.ok THEN Returned(inner.val, <<stripped, sub>>)
                  ELSE Raised("JSONDecodeError", <<stripped, sub>>)
        ELSE Returned(fallback, <<stripped>>)

\* the parsed record laid over the fallback: {**fallback, **parsed}
_parse_json_filled(text, fallback) ==
    LET stripped == Strip(text)
        whole == JsonLoads(stripped)
        start == Find(stripped, "{")
        end == RFind(stripped, "}") + 1
        sub == Slice(stripped, start, end)
        inner == JsonLoads(sub)
        Fill(val) == IF val.t = "dict" THEN PyDict(val.v @@ fallback.v) ELSE val
    IN  IF whole.ok THEN Returned(Fill(whole.val), <<stripped>>)
        ELSE IF start # -1 /\ end > start
             THEN IF inner.ok THEN Returned(Fill(inner.val), <<stripped, sub>>)
                  ELSE Returned(fallback, <<stripped, sub>>)
        ELSE Returned(fallback, <<stripped>>)

\* end = text.rfind("}"): the slice stops before the last closing brace
_parse_json_short_slice(text, fallback) ==
    LET stripped == Strip(text)
        whole == JsonLoads(stripped)
        start == Find(stripped, "{")
        end == RFind(stripped, "}")
        sub == Slice(stripped, start, end)
        inner == JsonLoads(sub)
    IN  IF whole.ok THEN Returned(whole.val, <<stripped>>)
        ELSE IF start # -1 /\ end > start
             THEN IF inner.ok THEN Returned(inner.val, <<stripped, sub>>)
                  ELSE Returned(fallback, <<stripped, sub>>)
        ELSE Returned(fallback, <<stripped>>)


_parse_json_always_slices(text, fallback) ==
    LET stripped == Strip(text)
        whole == JsonLoads(stripped)
        start == Find(stripped, "{")
        end == RFind(stripped, "}") + 1
        sub == Slice(stripped, start, end)
        inner == JsonLoads(sub)
    IN  IF whole.ok THEN Returned(whole.val, <<stripped>>)
        ELSE IF start # -1
             THEN IF inner.ok THEN Returned(inner.val, <<stripped, sub>>)
                  ELSE Returned(fallback, <<stripped, sub>>)
        ELSE Returned(fallback, <<stripped>>)

_parse_json(text, fallback) ==
    LET stripped == Strip(text)
        whole == JsonLoads(stripped)
        start == Find(stripped, "{")
        end == RFind(stripped, "}") + 1
        sub == Slice(stripped, start, end)
        inner == JsonLoads(sub)
    IN  IF whole.ok THEN Returned(whole.val, <<stripped>>)
        ELSE IF start # -1 /\ end > start
             THEN IF inner.ok THEN Returned(inner.val, <<stripped, sub>>)
                  ELSE Returned(fallback, <<stripped, sub>>)
        ELSE Returned(fallback, <<stripped>>)

-----------------------------------------------------------------------------
(* dict.get, str.join, str(), truthiness *)

\* d.get(k, default) and d[k] of a dict d (a function from its keys)
Get(d, k, default) == IF k \in DOMAIN d THEN d[k] ELSE default

\* the items iterating x yields, when x can be iterated: the atoms of a
\* str, the elements of a list, the keys of a dict
RECURSIVE KeySeq(_)
KeySeq(S) ==
    IF S = {} THEN <<>>
    ELSE LET k == CHOOSE x \in S : TRUE IN <<PyStr(k)>> \o KeySeq(S \ {k})

Items(x) ==
    CASE x.t = "str" -> [i \in 1..Len(x.v) |-> PyStr(x.v[i])]
      [] x.t = "list" -> x.v
      [] x.t = "dict" -> KeySeq(DOMAIN x.v)
      [] OTHER -> <<>>

\* whether sep.join(x) returns: x is iterable and yields only str

JoinableNonEmpty(x) ==
    /\ x.t \in {"str", "list", "dict"}
    /\ Items(x) # <<>>
    /\ \A i \in 1..Len(Items(x)) : Items(x)[i].t = "str"

Joinable(x) ==
    /\ x.t \in {"str", "list", "dict"}
    /\ \A i \in 1..Len(Items(x)) : Items(x)[i].t = "str"

\* the atoms of sep.join(items)
RECURSIVE JoinAtoms(_, _)
JoinAtoms(sep, items) ==
    IF items = <<>> THEN <<>>
    ELSE IF Len(items) = 1 THEN items[1].v
    ELSE items[1].v \o <<sep>> \o JoinAtoms(sep, Tail(items))

Join(sep, x) == PyText(JoinAtoms(sep, Items(x)))

\* the atoms of repr(x) and of str(x), as an f-string field formats x
RECURSIVE Repr(_)
RECURSIVE ReprEach(_)
ReprEach(items) ==
    IF items = <<>> THEN <<>>
    ELSE IF Len(items) = 1 THEN Repr(items[1])
    ELSE Repr(items[1]) \o <<", ">> \o ReprEach(Tail(items))

Repr(x) ==
    CASE x.t = "str" -> <<"'">> \o x.v \o <<"'">>
      [] x.t = "int" -> <<ToString(x.v)>>
      [] x.t = "float" -> <<"0." \o ToString(x.v)>>
      [] x.t = "none" -> <<"None">>
      [] x.t = "list" -> <<"[">> \o ReprEach(x.v) \o <<"]">>
      [] x.t = "dict" -> <<"{">> \o ReprEach(KeySeq(DOMAIN x.v)) \o <<"}">>

Format(x) == IF x.t = "str" THEN x.v ELSE Repr(x)

\* x or default, for a str x
Or(x, default) == IF x.v = <<>> THEN default ELSE x

\* the str a completion text is, and response.content.strip()
Spell(lexeme) ==
    IF lexeme.k = "str" THEN "\"" \o lexeme.s \o "\"" ELSE lexeme.s
TextStr(text) == PyText([i \in 1..Len(text) |-> Spell(text[i])])

-----------------------------------------------------------------------------
(* state.TriageAgentState and the merge of a partial update *)

InputKeys == {"patient_message", "patient_id", "patient_age", "known_conditions"}
DerivedKeys == {"symptoms", "duration", "severity_score", "urgency_level",
                "red_flags", "confidence"}
OutputKeys == {"response", "action_taken", "escalation_reason"}
StateKeys == InputKeys \cup DerivedKeys \cup OutputKeys

\* a key without a reducer keeps the last value written to it
MergeKeepOld(s, upd) ==
    [k \in DOMAIN s \cup DOMAIN upd |-> IF k \in DOMAIN s THEN s[k] ELSE upd[k]]

MergeAppend(s, upd) ==
    [k \in DOMAIN s \cup DOMAIN upd |->
        IF k \notin DOMAIN upd THEN s[k]
        ELSE IF k \in DOMAIN s /\ s[k].t = "list" /\ upd[k].t = "list"
             THEN PyList(s[k].v \o upd[k].v)
        ELSE upd[k]]

Merge(s, upd) ==
    [k \in DOMAIN s \cup DOMAIN upd |-> IF k \in DOMAIN upd THEN upd[k] ELSE s[k]]

-----------------------------------------------------------------------------
(* What a node does: the exception it raised ("" for none), the partial    *)
(* update it returned, and the prompts it sent to the completion service   *)

NodeReturned(upd, asked) == [exc |-> "", upd |-> upd, asked |-> asked]
NodeRaised(exc, asked) == [exc |-> exc, upd |-> <<>>, asked |-> asked]

Built(atoms) == [exc |-> "", val |-> PyText(atoms)]
NotBuilt(exc) == [exc |-> exc, val |-> PyStr("")]

KnownConditions(s) == Get(s, "known_conditions", PyList(<<>>))

-----------------------------------------------------------------------------
(* nodes.parse_patient_message *)

ParserFallback ==
    PyDict(("symptoms" :> PyList(<<PyStr("unable to parse")>>))
           @@ ("duration" :> PyStr("not specified"))
           @@ ("severity_cues" :> PyList(<<>>)))

\* patient_context: the f-string raises where a field cannot be joined or
\* the message is absent
parse_patient_message_context(s) ==
    IF ~Joinable(KnownConditions(s)) THEN NotBuilt("TypeError")
    ELSE IF "patient_message" \notin DOMAIN s THEN NotBuilt("KeyError")
    ELSE Built(<<"Patient ID: ">> \o Format(Get(s, "patient_id", PyStr("unknown")))
               \o <<" Age: ">> \o Format(Get(s, "patient_age", PyStr("unknown")))
               \o <<" Known conditions: ">>
               \o Or(Join(", ", KnownConditions(s)), PyStr("None")).v
               \o <<" Patient message: ">> \o Format(s["patient_message"]))


parse_patient_message_default_unknown(s, content) ==
    LET ctx == parse_patient_message_context(s)
        parsed == _parse_json(content, ParserFallback)
    IN  IF ctx.exc # "" THEN NodeRaised(ctx.exc, <<>>)
        ELSE IF parsed.exc # "" THEN NodeRaised(parsed.exc, <<ctx.val>>)
        ELSE IF parsed.ret.t # "dict" THEN NodeRaised("AttributeError", <<ctx.val>>)
        ELSE NodeReturned(
                ("symptoms" :> Get(parsed.ret.v, "symptoms", PyList(<<>>)))
                @@ ("duration" :> Get(parsed.ret.v, "duration", PyStr("unknown"))),
                <<ctx.val>>)

parse_patient_message(s, content) ==
    LET ctx == parse_patient_message_context(s)
        parsed == _parse_json(content, ParserFallback)
    IN  IF ctx.exc # "" THEN NodeRaised(ctx.exc, <<>>)
        ELSE IF parsed.exc # "" THEN NodeRaised(parsed.exc, <<ctx.val>>)
        ELSE IF parsed.ret.t # "dict" THEN NodeRaised("AttributeError", <<ctx.val>>)
        ELSE NodeReturned(
                ("symptoms" :> Get(parsed.ret.v, "symptoms", PyList(<<>>)))
                @@ ("duration" :> Get(parsed.ret.v, "duration", PyStr("not specified"))),
                <<ctx.val>>)

-----------------------------------------------------------------------------
(* nodes.assess_urgency *)

AssessorFallback ==
    PyDict(("severity_score" :> PyInt(6))
           @@ ("urgency_level" :> PyStr("URGENT"))
           @@ ("red_flags" :> PyList(<<>>))
           @@ ("confidence" :> PyFloat(3)))

assess_urgency_context(s) ==
    IF ~Joinable(KnownConditions(s)) THEN NotBuilt("TypeError")
    ELSE IF ~Joinable(Get(s, "symptoms", PyList(<<>>))) THEN NotBuilt("TypeError")
    ELSE IF "patient_message" \notin DOMAIN s THEN NotBuilt("KeyError")
    ELSE Built(<<"Patient age: ">> \o Format(Get(s, "patient_age", PyStr("unknown")))
               \o <<" Known conditions: ">>
               \o Or(Join(", ", KnownConditions(s)), PyStr("None")).v
               \o <<" Symptoms: ">> \o Join(", ", Get(s, "symptoms", PyList(<<>>))).v
               \o <<" Duration: ">> \o Format(Get(s, "duration", PyStr("not specified")))
               \o <<" Original message: ">> \o Format(s["patient_message"]))

\* a missing urgency_level read as "ROUTINE"
assess_urgency_default_routine(s, content) ==
    LET ctx == assess_urgency_context(s)
        assessed == _parse_json(content, AssessorFallback)
    IN  IF ctx.exc # "" THEN NodeRaised(ctx.exc, <<>>)
        ELSE IF assessed.exc # "" THEN NodeRaised(assessed.exc, <<ctx.val>>)
        ELSE IF assessed.ret.t # "dict" THEN NodeRaised("AttributeError", <<ctx.val>>)
        ELSE NodeReturned(
                ("severity_score" :> Get(assessed.ret.v, "severity_score", PyInt(5)))
                @@ ("urgency_level" :> Get(assessed.ret.v, "urgency_level", PyStr("ROUTINE")))
                @@ ("red_flags" :> Get(assessed.ret.v, "red_flags", PyList(<<>>)))
                @@ ("confidence" :> Get(assessed.ret.v, "confidence", PyFloat(5))),
                <<ctx.val>>)

assess_urgency(s, content) ==
    LET ctx == assess_urgency_context(s)
        assessed == _parse_json(content, AssessorFallback)
    IN  IF ctx.exc # "" THEN NodeRaised(ctx.exc, <<>>)
        ELSE IF assessed.exc # "" THEN NodeRaised(assessed.exc, <<ctx.val>>)
        ELSE IF assessed.ret.t # "dict" THEN NodeRaised("AttributeError", <<ctx.val>>)
        ELSE NodeReturned(
                ("severity_score" :> Get(assessed.ret.v, "severity_score", PyInt(5)))
                @@ ("urgency_level" :> Get(assessed.ret.v, "urgency_level", PyStr("URGENT")))
                @@ ("red_flags" :> Get(assessed.ret.v, "red_flags", PyList(<<>>)))
                @@ ("confidence" :> Get(assessed.ret.v, "confidence", PyFloat(5))),
                <<ctx.val>>)

-----------------------------------------------------------------------------
(* nodes.emergency_handler *)

emergency_handler(s) ==
    LET red_flags == Get(s, "red_flags", PyList(<<>>))
        red_flags_str == Join(", ", red_flags)
    IN  IF ~Joinable(red_flags) THEN NodeRaised("TypeError", <<>>)
        ELSE NodeReturned(
                ("action_taken" :> PyStr("ESCALATE"))
                @@ ("escalation_reason" :> PyText(
                        <<"EMERGENCY TRIAGE -- Severity ">>
                        \o Format(Get(s, "severity_score", PyStr("N/A")))
                        \o <<"/10. Red flags: ">>
                        \o Or(red_flags_str, PyStr("elevated risk")).v
                        \o <<". Patient (ID: ">>
                        \o Format(Get(s, "patient_id", PyStr("unknown")))
                        \o <<", Age: ">>
                        \o Format(Get(s, "patient_age", PyStr("unknown")))
                        \o <<") requires immediate clinical review.">>)),
                <<>>)

-----------------------------------------------------------------------------
(* nodes.urgent_handler: datetime.now(), the slot and its strftime *)

\* the hour of the slot
TargetHour == 15

\* a datetime: the day's ordinal, the hour, the minute, and whether the
\* seconds and microseconds are zero (us = 0) or not (us = 1)
DateTime(day, hour, minute, us) ==
    [day |-> day, hour |-> hour, minute |-> minute, us |-> us]

\* a <= b
DtLeq(a, b) ==
    \/ a.day < b.day
    \/ a.day = b.day /\ a.hour < b.hour
    \/ a.day = b.day /\ a.hour = b.hour /\ a.minute < b.minute
    \/ a.day = b.day /\ a.hour = b.hour /\ a.minute = b.minute /\ a.us <= b.us

\* now.replace(hour=15, minute=0, second=0, microsecond=0), rolled to the
\* next day when it is not after now

SlotSameDay(now) == DateTime(now.day, TargetHour, 0, 0)

Slot(now) ==
    LET slot == DateTime(now.day, TargetHour, 0, 0)
    IN  IF DtLeq(slot, now) THEN [slot EXCEPT !.day = @ + 1] ELSE slot

TwoDigits(n) == IF n < 10 THEN "0" \o ToString(n) ELSE ToString(n)

\* strftime("%I:%M %p"): the 12-hour clock time
ClockTime(dt) ==
    TwoDigits(IF dt.hour % 12 = 0 THEN 12 ELSE dt.hour % 12) \o ":"
    \o TwoDigits(dt.minute) \o " " \o (IF dt.hour < 12 THEN "AM" ELSE "PM")

SlotStr(now) ==
    <<ClockTime(Slot(now)),
      IF Slot(now).day = now.day THEN " today" ELSE " tomorrow">>

urgent_handler(s, now) ==
    NodeReturned(
        ("action_taken" :> PyStr("BOOK"))
        @@ ("escalation_reason" :> PyText(
                <<"Same-day appointment booked for ">> \o SlotStr(now)
                \o <<". Severity: ">>
                \o Format(Get(s, "severity_score", PyStr("N/A")))
                \o <<"/10.">>)),
        <<>>)

-----------------------------------------------------------------------------
(* nodes.routine_handler *)


routine_handler_relabels(s) ==
    NodeReturned(("action_taken" :> PyStr("SELF_CARE"))
                 @@ ("escalation_reason" :> PyStr(""))
                 @@ ("urgency_level" :> PyStr("ROUTINE")),
                 <<>>)

routine_handler(s) ==
    NodeReturned(("action_taken" :> PyStr("SELF_CARE"))
                 @@ ("escalation_reason" :> PyStr("")),
                 <<>>)

-----------------------------------------------------------------------------
(* nodes.generate_response *)

generate_response_context(s) ==
    IF ~Joinable(Get(s, "symptoms", PyList(<<>>))) THEN NotBuilt("TypeError")
    ELSE IF ~Joinable(Get(s, "red_flags", PyList(<<>>))) THEN NotBuilt("TypeError")
    ELSE IF ~Joinable(KnownConditions(s)) THEN NotBuilt("TypeError")
    ELSE Built(<<"Symptoms: ">> \o Join(", ", Get(s, "symptoms", PyList(<<>>))).v
               \o <<" Duration: ">> \o Format(Get(s, "duration", PyStr("not specified")))
               \o <<" Severity: ">> \o Format(Get(s, "severity_score", PyStr("N/A")))
               \o <<"/10 Urgency: ">> \o Format(Get(s, "urgency_level", PyStr("ROUTINE")))
               \o <<" Red flags: ">>
               \o Or(Join(", ", Get(s, "red_flags", PyList(<<>>))), PyStr("None")).v
               \o <<" Action taken: ">> \o Format(Get(s, "action_taken", PyStr("SELF_CARE")))
               \o <<" Details: ">> \o Format(Get(s, "escalation_reason", PyStr("")))
               \o <<" Patient age: ">> \o Format(Get(s, "patient_age", PyStr("unknown")))
               \o <<" Known conditions: ">>
               \o Or(Join(", ", KnownConditions(s)), PyStr("None")).v)


generate_response_clears_reason(s, content) ==
    LET ctx == generate_response_context(s)
    IN  IF ctx.exc # "" THEN NodeRaised(ctx.exc, <<>>)
        ELSE NodeReturned(("response" :> TextStr(Strip(content)))
                          @@ ("escalation_reason" :> PyStr("")),
                          <<ctx.val>>)

generate_response(s, content) ==
    LET ctx == generate_response_context(s)
    IN  IF ctx.exc # "" THEN NodeRaised(ctx.exc, <<>>)
        ELSE NodeReturned("response" :> TextStr(Strip(content)), <<ctx.val>>)

-----------------------------------------------------------------------------
(* graph.route_by_urgency *)

route_by_urgency_absent_urgent(s) ==
    LET level == Get(s, "urgency_level", PyStr("URGENT"))
    IN  IF level = PyStr("EMERGENCY") THEN "emergency"
        ELSE IF level = PyStr("URGENT") THEN "urgent"
        ELSE "routine"

route_by_urgency_default_urgent(s) ==
    LET level == Get(s, "urgency_level", PyStr("ROUTINE"))
    IN  IF level = PyStr("EMERGENCY") THEN "emergency"
        ELSE IF level = PyStr("ROUTINE") THEN "routine"
        ELSE "urgent"

route_by_urgency(s) ==
    LET level == Get(s, "urgency_level", PyStr("ROUTINE"))
    IN  IF level = PyStr("EMERGENCY") THEN "emergency"
        ELSE IF level = PyStr("URGENT") THEN "urgent"
        ELSE "routine"

-----------------------------------------------------------------------------
(* The completion service: the texts llm.invoke can return *)

\* the JSON text of a value; a dict is written from its members in order
RECURSIVE RenderValue(_)
RECURSIVE RenderElements(_)
RenderElements(items) ==
    IF items = <<>> THEN <<>>
    ELSE IF Len(items) = 1 THEN RenderValue(items[1])
    ELSE RenderValue(items[1]) \o <<Comma>> \o RenderElements(Tail(items))

RenderValue(x) ==
    CASE x.t = "str" -> <<StrLit(IF x.v = <<>> THEN "" ELSE x.v[1])>>
      [] x.t = "int" -> <<IntLit(x.v)>>
      [] x.t = "float" -> <<FloatLit(x.v)>>
      [] x.t = "none" -> <<NullLit>>
      [] x.t = "list" -> <<LBracket>> \o RenderElements(x.v) \o <<RBracket>>

RECURSIVE RenderMembers(_)
RenderMembers(members) ==
    IF members = <<>> THEN <<>>
    ELSE LET m == <<StrLit(members[1][1]), Colon>> \o RenderValue(members[1][2])
         IN  IF Len(members) = 1 THEN m
             ELSE m \o <<Comma>> \o RenderMembers(Tail(members))

RenderObject(members) == <<LBrace>> \o RenderMembers(members) \o <<RBrace>>

\* the dict a sequence of members denotes: a repeated key keeps its last value
RECURSIVE MembersDict(_)
MembersDict(members) ==
    IF members = <<>> THEN <<>>
    ELSE LET n == Len(members)
         IN  (members[n][1] :> members[n][2]) @@ MembersDict(SubSeq(members, 1, n - 1))

\* the member sequences that give each field, in order, one of its values or
\* leave it out
RECURSIVE Objects(_)
Objects(fields) ==
    IF fields = <<>> THEN {<<>>}
    ELSE LET rest == Objects(Tail(fields))
         IN  rest \cup {<<<<fields[1][1], v>>>> \o d : v \in fields[1][2], d \in rest}

Prose == Word("Sure, here is the JSON")

\* texts json.loads reads as a value that is no dict
NonRecordTexts ==
    {<<LBracket, RBracket>>, <<IntLit(9)>>, <<StrLit("URGENT")>>, <<NullLit>>}

\* texts no attempt of _parse_json parses
UnparseableTexts ==
    {<<>>, <<WS>>, <<Prose>>, <<LBrace, Prose, RBrace>>, <<RBrace, Prose, LBrace>>,
     <<LBrace, StrLit("urgency_level"), Colon>>}

\* a document inside prose, and inside whitespace
Embedded(doc) == {<<Prose>> \o doc \o <<Prose>>, <<Prose, WS>> \o doc, <<WS>> \o doc \o <<WS>>}

ParserObjects ==
    Objects(<<
        <<"symptoms", {PyList(<<PyStr("chest pain")>>), PyStr("chest pain"), PyInt(5)}>>,
        <<"duration", {PyStr("20 minutes")}>> >>)

ParserTexts ==
    {RenderObject(m) : m \in ParserObjects}
    \cup Embedded(RenderObject(<<<<"symptoms", PyList(<<PyStr("chest pain")>>)>>>>))
    \cup NonRecordTexts \cup UnparseableTexts

Levels == {PyStr("EMERGENCY"), PyStr("URGENT"), PyStr("ROUTINE")}

AssessorObjects ==
    Objects(<<
        <<"severity_score", {PyInt(9), PyInt(2), PyInt(11)}>>,
        <<"urgency_level", Levels \cup {PyStr("urgent"), PyNone}>>,
        <<"red_flags", {PyList(<<>>), PyList(<<PyStr("chest pain")>>), PyInt(5)}>>,
        <<"confidence", {PyFloat(9)}>> >>)

AssessorTexts ==
    {RenderObject(m) : m \in AssessorObjects}
    \cup Embedded(RenderObject(<<<<"severity_score", PyInt(9)>>,
                                 <<"urgency_level", PyStr("EMERGENCY")>>>>))
    \cup NonRecordTexts \cup UnparseableTexts

ComposerTexts ==
    {<<>>, <<WS>>, <<Word("Please rest and drink fluids.")>>,
     <<WS, Word("We have booked you an appointment."), WS>>}

\* the times datetime.now() can return
Times ==
    {DateTime(1, h, m, us) : h \in {9, TargetHour, 23}, m \in {0, 30}, us \in {0, 1}}

-----------------------------------------------------------------------------
(* run_demo.SCENARIOS: the initial states agent.invoke is given *)

Scenario(message, id, age, conditions) ==
    ("patient_message" :> PyStr(message))
    @@ ("patient_id" :> PyStr(id))
    @@ ("patient_age" :> PyInt(age))
    @@ ("known_conditions" :> PyList(conditions))
    @@ ("symptoms" :> PyList(<<>>))
    @@ ("duration" :> PyStr(""))
    @@ ("severity_score" :> PyInt(0))
    @@ ("urgency_level" :> PyStr(""))
    @@ ("red_flags" :> PyList(<<>>))
    @@ ("confidence" :> PyFloat(0))
    @@ ("response" :> PyStr(""))
    @@ ("action_taken" :> PyStr(""))
    @@ ("escalation_reason" :> PyStr(""))

SCENARIOS ==
    {Scenario("I've had chest pain and left arm tingling for the past 20 minutes",
              "PAT-001", 55, <<PyStr("hypertension")>>),
     Scenario("I've had a sore throat and low fever since yesterday, feels worse today",
              "PAT-002", 32, <<>>),
     Scenario("Mild headache for a few hours, probably from staring at screens",
              "PAT-003", 24, <<>>)}

-----------------------------------------------------------------------------
(* graph.build_graph: the nodes, the edges and the run of the compiled graph *)

\* the runs of agent.invoke the model follows
Runs == {1, 2}

END == "END"
Branches == {"emergency", "urgent", "routine"}
LlmNodes == {"parse_patient_message", "assess_urgency", "generate_response"}
Handlers == {"emergency", "urgent", "routine"}

EdgeUrgentToRoutine ==
    ("parse_patient_message" :> "assess_urgency")
    @@ ("emergency" :> "generate_response")
    @@ ("urgent" :> "routine")
    @@ ("routine" :> "generate_response")
    @@ ("generate_response" :> "END")

\* add_edge: the node that follows each node that has one successor
Edge ==
    ("parse_patient_message" :> "assess_urgency")
    @@ ("emergency" :> "generate_response")
    @@ ("urgent" :> "generate_response")
    @@ ("routine" :> "generate_response")
    @@ ("generate_response" :> END)

\* add_conditional_edges: the node each answer of the router selects
PathMap ==
    ("emergency" :> "emergency") @@ ("urgent" :> "urgent") @@ ("routine" :> "routine")

\* the prompt a node that calls the service builds from the state
Context(node, s) ==
    CASE node = "parse_patient_message" -> parse_patient_message_context(s)
      [] node = "assess_urgency" -> assess_urgency_context(s)
      [] node = "generate_response" -> generate_response_context(s)

\* one step of a run, as the trace keeps it: the node, the exception it
\* raised, the update it returned, the prompts it sent, the router's answer
Entry(node, out, ret) ==
    [node |-> node, exc |-> out.exc, upd |-> out.upd, asked |-> out.asked, ret |-> ret]


StepShared(r, node, out, next) ==
    /\ trace' = [trace EXCEPT ![r] = Append(@, Entry(node, out, ""))]
    /\ IF out.exc # ""
       THEN /\ pc' = [pc EXCEPT ![r] = "raised"]
            /\ state' = state
       ELSE /\ pc' = [pc EXCEPT ![r] = next]
            /\ state' = [q \in Runs |->
                            IF pc[q] = "idle" THEN state[q] ELSE Merge(state[q], out.upd)]

\* the engine runs a node on the state of run r: an exception ends the run,
\* an update is merged before the next node runs
Step(r, node, out, next) ==
    /\ trace' = [trace EXCEPT ![r] = Append(@, Entry(node, out, ""))]
    /\ IF out.exc # ""
       THEN /\ pc' = [pc EXCEPT ![r] = "raised"]
            /\ state' = state
       ELSE /\ pc' = [pc EXCEPT ![r] = next]
            /\ state' = [state EXCEPT ![r] = Merge(@, out.upd)]

\* a node that calls the service: the call happens when the prompt is built
LlmStep(r, node, texts, next) ==
    IF Context(node, state[r]).exc # ""
    THEN /\ heard' = heard
         /\ Step(r, node, NodeRaised(Context(node, state[r]).exc, <<>>), next)
    ELSE \E content \in texts :
            /\ heard' = [heard EXCEPT ![r] = Append(@, content)]
            /\ Step(r, node,
                    CASE node = "parse_patient_message" ->
                            parse_patient_message(state[r], content)
                      [] node = "assess_urgency" -> assess_urgency(state[r], content)
                      [] node = "generate_response" ->
                            generate_response(state[r], content),
                    next)

NoCalls == <<pj, rt, mg, nd>>

\* run_demo.run_scenario: agent.invoke(patient_input)
Invoke(r) ==
    /\ pc[r] = "idle"
    /\ \E input \in SCENARIOS : state' = [state EXCEPT ![r] = input]
    /\ pc' = [pc EXCEPT ![r] = "parse_patient_message"]
    /\ UNCHANGED <<trace, heard, clock, NoCalls>>

ParsePatientMessage(r) ==
    /\ pc[r] = "parse_patient_message"
    /\ LlmStep(r, "parse_patient_message", ParserTexts, Edge["parse_patient_message"])
    /\ UNCHANGED <<clock, NoCalls>>

AssessUrgency(r) ==
    /\ pc[r] = "assess_urgency"
    /\ LlmStep(r, "assess_urgency", AssessorTexts, "route_by_urgency")
    /\ UNCHANGED <<clock, NoCalls>>

\* the conditional edge after assess_urgency
RouteByUrgency(r) ==
    /\ pc[r] = "route_by_urgency"
    /\ LET branch == route_by_urgency(state[r])
       IN  /\ pc' = [pc EXCEPT ![r] = PathMap[branch]]
           /\ trace' = [trace EXCEPT ![r] =
                            Append(@, Entry("route_by_urgency", NodeReturned(<<>>, <<>>), branch))]
    /\ UNCHANGED <<state, heard, clock, NoCalls>>

EmergencyHandler(r) ==
    /\ pc[r] = "emergency"
    /\ Step(r, "emergency", emergency_handler(state[r]), Edge["emergency"])
    /\ UNCHANGED <<heard, clock, NoCalls>>

UrgentHandler(r) ==
    /\ pc[r] = "urgent"
    /\ \E now \in Times :
            /\ clock' = [clock EXCEPT ![r] = Append(@, now)]
            /\ Step(r, "urgent", urgent_handler(state[r], now), Edge["urgent"])
    /\ UNCHANGED <<heard, NoCalls>>

RoutineHandler(r) ==
    /\ pc[r] = "routine"
    /\ Step(r, "routine", routine_handler(state[r]), Edge["routine"])
    /\ UNCHANGED <<heard, clock, NoCalls>>

GenerateResponse(r) ==
    /\ pc[r] = "generate_response"
    /\ LlmStep(r, "generate_response", ComposerTexts, Edge["generate_response"])
    /\ UNCHANGED <<clock, NoCalls>>

\* llm.invoke raises instead of returning a completion
ServiceFails(r) ==
    /\ pc[r] \in LlmNodes
    /\ Context(pc[r], state[r]).exc = ""
    /\ Step(r, pc[r],
            NodeRaised("CompletionServiceError", <<Context(pc[r], state[r]).val>>),
            "raised")
    /\ UNCHANGED <<heard, clock, NoCalls>>

RunStep(r) ==
    \/ Invoke(r)
    \/ ParsePatientMessage(r)
    \/ AssessUrgency(r)
    \/ RouteByUrgency(r)
    \/ EmergencyHandler(r)
    \/ UrgentHandler(r)
    \/ RoutineHandler(r)
    \/ GenerateResponse(r)
    \/ ServiceFails(r)

-----------------------------------------------------------------------------
(* Specifications *)

PjIdle == [text |-> <<>>, fallback |-> PyEmptyDict, out |-> Returned(PyNone, <<>>),
           done |-> FALSE]
RtIdle == [s |-> <<>>, after |-> <<>>, ret |-> "", done |-> FALSE]
MgIdle == [s |-> <<>>, upd |-> <<>>, after |-> <<>>]
NdIdle == [node |-> "", s |-> <<>>, content |-> <<>>, now |-> DateTime(0, 0, 0, 0),
           slot |-> DateTime(0, 0, 0, 0), out |-> NodeReturned(<<>>, <<>>), ret |-> "",
           done |-> FALSE]

NoRuns ==
    /\ pc = [r \in Runs |-> "idle"]
    /\ state = [r \in Runs |-> <<>>]
    /\ trace = [r \in Runs |-> <<>>]
    /\ heard = [r \in Runs |-> <<>>]
    /\ clock = [r \in Runs |-> <<>>]

\* one run of the graph
Init == NoRuns /\ pj = PjIdle /\ rt = RtIdle /\ mg = MgIdle /\ nd = NdIdle
Next == RunStep(1)
Spec == Init /\ [][Next]_vars

-----------------------------------------------------------------------------

(* One run of the graph in which the engine goes on to the next node and *)
(* every call of the completion service comes back, with a text or an    *)
(* exception                                                              *)

SpecLive == Init /\ [][Next]_vars /\ WF_vars(Next)

-----------------------------------------------------------------------------

(* _parse_json called on its own *)

SeqsUpTo(S, n) == UNION {[1..k -> S] : k \in 0..n}

Lexicon ==
    {LBrace, RBrace, LBracket, RBracket, Colon, Comma, WS,
     StrLit("urgency_level"), IntLit(9), Prose}

\* the objects the documents are written from, as member sequences
DocumentObjects ==
    {<<>>,
     <<<<"urgency_level", PyStr("ROUTINE")>>>>,
     <<<<"severity_score", PyInt(9)>>, <<"urgency_level", PyStr("EMERGENCY")>>>>,
     <<<<"red_flags", PyList(<<PyStr("chest pain"), PyStr("fever")>>)>>>>,
     <<<<"severity_score", PyInt(2)>>, <<"severity_score", PyInt(9)>>>>}

\* documents to embed: objects, arrays, and objects spoiled inside
Documents ==
    {RenderObject(m) : m \in DocumentObjects}
    \cup
    {<<LBracket, IntLit(9), RBracket>>,
     <<LBracket, LBrace, RBrace, RBracket>>,
     <<LBrace, StrLit("urgency_level"), StrLit("URGENT"), RBrace>>,
     <<LBrace, StrLit("urgency_level"), Colon, RBrace>>}

Affixes == SeqsUpTo({WS, Prose, LBrace, RBrace}, MaxAffixLen)

ParseJsonTexts ==
    SeqsUpTo(Lexicon, MaxTextLen)
    \cup {p \o d \o q : p \in Affixes, d \in Documents, q \in Affixes}

Fallbacks == {ParserFallback, AssessorFallback}

ParseJsonCall ==
    /\ ~pj.done
    /\ pj' = [pj EXCEPT !.out = _parse_json(pj.text, pj.fallback), !.done = TRUE]
    /\ UNCHANGED <<pc, state, trace, heard, clock, rt, mg, nd>>

InitParse ==
    /\ NoRuns /\ rt = RtIdle /\ mg = MgIdle /\ nd = NdIdle
    /\ pj \in {[PjIdle EXCEPT !.text = t, !.fallback = f] :
                    t \in ParseJsonTexts, f \in Fallbacks}
NextParse == ParseJsonCall
SpecParse == InitParse /\ [][NextParse]_vars

-----------------------------------------------------------------------------
(* route_by_urgency called on its own *)

With(s, k, v) == [x \in DOMAIN s \cup {k} |-> IF x = k THEN v ELSE s[x]]
Without(s, k) == [x \in DOMAIN s \ {k} |-> s[x]]

RouteLevels ==
    Levels \cup {PyStr(""), PyStr("urgent"), PyStr("CRITICAL"), PyNone, PyInt(9),
                 PyList(<<PyStr("URGENT")>>)}

RouteStates ==
    LET base == {With(With(s, "severity_score", sev), "action_taken", act) :
                    s \in SCENARIOS, sev \in {PyInt(0), PyInt(9)},
                    act \in {PyStr(""), PyStr("BOOK")}}
    IN  {With(s, "urgency_level", lv) : s \in base, lv \in RouteLevels}
        \cup {Without(s, "urgency_level") : s \in base}

RouteCall ==
    /\ ~rt.done
    /\ rt' = [rt EXCEPT !.ret = route_by_urgency(rt.s), !.after = rt.s, !.done = TRUE]
    /\ UNCHANGED <<pc, state, trace, heard, clock, pj, mg, nd>>

InitRoute ==
    /\ NoRuns /\ pj = PjIdle /\ mg = MgIdle /\ nd = NdIdle
    /\ rt \in {[RtIdle EXCEPT !.s = s] : s \in RouteStates}
NextRoute == RouteCall
SpecRoute == InitRoute /\ [][NextRoute]_vars

-----------------------------------------------------------------------------
(* One partial update merged into one state, again and again *)

\* how often the update is merged
MaxMerges == 2

MergeStates ==
    SCENARIOS
    \cup {[k \in InputKeys |-> s[k]] : s \in SCENARIOS}
    \cup {With(With(s, "symptoms", PyList(<<PyStr("fever")>>)),
               "red_flags", PyList(<<PyStr("stiff neck")>>)) : s \in SCENARIOS}

MergeUpdates ==
    LET s == CHOOSE x \in SCENARIOS : x["patient_id"] = PyStr("PAT-001")
    IN  {parse_patient_message(s, c).upd : c \in ParserTexts}
        \cup {assess_urgency(s, c).upd : c \in AssessorTexts}
        \cup {generate_response(s, c).upd : c \in ComposerTexts}
        \cup {urgent_handler(s, now).upd : now \in Times}
        \cup {emergency_handler(s).upd, routine_handler(s).upd}

MergeAgain ==
    /\ Len(mg.after) < MaxMerges
    /\ mg' = [mg EXCEPT !.after =
                Append(@, Merge(IF @ = <<>> THEN mg.s ELSE @[Len(@)], mg.upd))]
    /\ UNCHANGED <<pc, state, trace, heard, clock, pj, rt, nd>>

InitMerge ==
    /\ NoRuns /\ pj = PjIdle /\ rt = RtIdle /\ nd = NdIdle
    /\ mg \in {[MgIdle EXCEPT !.s = s, !.upd = u] : s \in MergeStates, u \in MergeUpdates}
NextMerge == MergeAgain
SpecMerge == InitMerge /\ [][NextMerge]_vars

-----------------------------------------------------------------------------

(* One node function, or the router, called on its own *)

\* the times datetime.now() returns to the call
NodeTimes ==
    {DateTime(1, h, m, us) : h \in 0..23, m \in {0, 59}, us \in {0, 1}}

\* the state after node's update for the completion text is merged into s
After(s, node, text) ==
    Merge(s, CASE node = "parse_patient_message" -> parse_patient_message(s, text).upd
               [] node = "assess_urgency" -> assess_urgency(s, text).upd
               [] node = "generate_response" -> generate_response(s, text).upd)

\* the states in which no field was set from a completion: the initial
\* states, with their defaults or with the input fields alone, and the
\* states the fallback records and the handler they select lead to
NodeStates ==
    LET parsed == {After(s, "parse_patient_message", <<Prose>>) : s \in SCENARIOS}
        assessed == {After(s, "assess_urgency", <<Prose>>) : s \in parsed}
        handled == {Merge(s, urgent_handler(s, DateTime(1, 9, 0, 0)).upd) : s \in assessed}
    IN  SCENARIOS \cup {[k \in InputKeys |-> s[k]] : s \in SCENARIOS}
        \cup parsed \cup assessed \cup handled

\* the node called, with the completion it is given and the time it reads
NodeArgs ==
    ({"parse_patient_message"} \X ParserTexts \X {NdIdle.now})
    \cup ({"assess_urgency"} \X AssessorTexts \X {NdIdle.now})
    \cup ({"generate_response"} \X ComposerTexts \X {NdIdle.now})
    \cup ({"urgent"} \X {<<>>} \X NodeTimes)
    \cup ({"emergency", "routine", "route_by_urgency"} \X {<<>>} \X {NdIdle.now})

NodeCalls ==
    {[NdIdle EXCEPT !.node = a[1], !.s = s, !.content = a[2], !.now = a[3]] :
        s \in NodeStates, a \in NodeArgs}

NodeCall ==
    /\ ~nd.done
    /\ nd' = [nd EXCEPT
                !.out = CASE nd.node = "parse_patient_message" ->
                                parse_patient_message(nd.s, nd.content)
                          [] nd.node = "assess_urgency" -> assess_urgency(nd.s, nd.content)
                          [] nd.node = "generate_response" ->
                                generate_response(nd.s, nd.content)
                          [] nd.node = "emergency" -> emergency_handler(nd.s)
                          [] nd.node = "urgent" -> urgent_handler(nd.s, nd.now)
                          [] nd.node = "routine" -> routine_handler(nd.s)
                          [] nd.node = "route_by_urgency" -> NodeReturned(<<>>, <<>>),
                !.ret = IF nd.node = "route_by_urgency" THEN route_by_urgency(nd.s) ELSE "",
                !.slot = IF nd.node = "urgent" THEN Slot(nd.now) ELSE @,
                !.done = TRUE]
    /\ UNCHANGED <<pc, state, trace, heard, clock, pj, rt, mg>>

InitNode ==
    /\ NoRuns /\ pj = PjIdle /\ rt = RtIdle /\ mg = MgIdle
    /\ nd \in NodeCalls
NextNode == NodeCall
SpecNode == InitNode /\ [][NextNode]_vars

-----------------------------------------------------------------------------


(* Two runs of the graph, their steps interleaved *)

\* the completions and the times the two runs are given
TwoRunTexts ==
    {RenderObject(<<<<"symptoms", PyList(<<PyStr("chest pain")>>)>>,
                    <<"duration", PyStr("20 minutes")>>>>),
     RenderObject(<<<<"severity_score", PyInt(9)>>,
                    <<"urgency_level", PyStr("EMERGENCY")>>,
                    <<"red_flags", PyList(<<PyStr("chest pain")>>)>>>>),
     RenderObject(<<<<"severity_score", PyInt(2)>>, <<"urgency_level", PyStr("ROUTINE")>>>>),
     <<Prose>>,
     <<IntLit(9)>>,
     <<WS, Word("We have booked you an appointment."), WS>>}

TwoRunTimes == {DateTime(1, 9, 30, 1), DateTime(1, TargetHour, 0, 0)}

Scripted ==
    \A r \in Runs :
        /\ \A i \in 1..Len(heard[r]) : heard[r][i] \in TwoRunTexts
        /\ \A i \in 1..Len(clock[r]) : clock[r][i] \in TwoRunTimes

InitTwo == Init
NextTwo == \E r \in Runs : RunStep(r) /\ Scripted'
SpecTwo == InitTwo /\ [][NextTwo]_vars

-----------------------------------------------------------------------------

(* Claims *)

\* whether str x holds the atoms, side by side
Contains(x, atoms) ==
    \E i \in 1..(Len(x.v) - Len(atoms) + 1) : SubSeq(x.v, i, i + Len(atoms) - 1) = atoms

\* the branch the spec gives each value of the urgency field
BranchOf(s) ==
    IF "urgency_level" \in DOMAIN s /\ s["urgency_level"] = PyStr("EMERGENCY") THEN "emergency"
    ELSE IF "urgency_level" \in DOMAIN s /\ s["urgency_level"] = PyStr("URGENT") THEN "urgent"
    ELSE "routine"

\* C1: route_by_urgency answers for every state, by the urgency_level field
\* alone: "emergency" exactly when it is "EMERGENCY", "urgent" exactly when it
\* is "URGENT", "routine" for every other value and for an absent key; the
\* state it was given is the same after the call.
C1_RouterTotalPure ==
    rt.done =>
        /\ rt.ret \in Branches
        /\ rt.ret = BranchOf(rt.s)
        /\ rt.after = rt.s

C1_Witness ==
    /\ rt.done
    /\ "urgency_level" \notin DOMAIN rt.s
    /\ rt.ret = "routine"

\* C2: the steps of a run are, in this order, parse_patient_message,
\* assess_urgency, the router, one handler, generate_response; the router
\* answers once, from the urgency_level the assessor returned; the handler
\* that runs is the one handler of the run; a run at END took all five steps.
C2_NodeOrder ==
    \A r \in Runs :
        LET tr == trace[r]
            n == Len(tr)
        IN  /\ n <= 5
            /\ n >= 1 => tr[1].node = "parse_patient_message"
            /\ n >= 2 => tr[2].node = "assess_urgency" /\ tr[1].exc = ""
            /\ n >= 3 => /\ tr[3].node = "route_by_urgency"
                         /\ tr[2].exc = ""
                         /\ tr[3].ret = BranchOf(tr[2].upd)
            /\ n >= 4 => tr[4].node \in Handlers /\ tr[3].exc = ""
            /\ n >= 5 => tr[5].node = "generate_response" /\ tr[4].exc = ""
            /\ Cardinality({i \in 1..n : tr[i].node \in Handlers}) <= 1
            /\ Cardinality({i \in 1..n : tr[i].node = "route_by_urgency"}) <= 1
            /\ pc[r] = END => n = 5 /\ tr[5].exc = ""

C2_Witness ==
    /\ pc[1] = END
    /\ trace[1][4].node = "urgent"
    /\ trace[1][3].ret = "urgent"

\* the clock times strftime("%I:%M %p") writes
TimeOfDayTokens ==
    {TwoDigits(h) \o ":" \o TwoDigits(m) \o " " \o p :
        h \in 1..12, m \in 0..59, p \in {"AM", "PM"}}

\* C3: at END the action and the detail string follow the urgency_level the
\* assessor returned: "EMERGENCY" gives ESCALATE and a detail string that is
\* not empty and holds the severity score the assessor returned; "URGENT"
\* gives BOOK and a detail string that holds a clock time and that severity
\* score; any other value gives SELF_CARE and the empty detail string.
C3_ActionMatchesLevel ==
    \A r \in Runs :
        pc[r] = END =>
            LET level == trace[r][2].upd["urgency_level"]
                score == Format(trace[r][2].upd["severity_score"])
                action == state[r]["action_taken"]
                detail == state[r]["escalation_reason"]
            IN  IF level = PyStr("EMERGENCY")
                THEN /\ action = PyStr("ESCALATE")
                     /\ detail # PyStr("")
                     /\ score # <<>> /\ Contains(detail, score)
                ELSE IF level = PyStr("URGENT")
                THEN /\ action = PyStr("BOOK")
                     /\ \E i \in 1..Len(detail.v) : detail.v[i] \in TimeOfDayTokens
                     /\ score # <<>> /\ Contains(detail, score)
                ELSE /\ action = PyStr("SELF_CARE")
                     /\ detail = PyStr("")

C3_Witness ==
    /\ pc[1] = END
    /\ trace[1][2].upd["urgency_level"] = PyStr("urgent")
    /\ state[1]["action_taken"] = PyStr("SELF_CARE")

\* the text from the first opening brace through the last closing brace,
\* when the last closing brace comes after the first opening brace
Opens(text) == {i \in 1..Len(text) : text[i] = LBrace}
Closes(text) == {i \in 1..Len(text) : text[i] = RBrace}
HasSpan(text) ==
    /\ Opens(text) # {}
    /\ Closes(text) # {}
    /\ SetMax(Closes(text)) > SetMin(Opens(text))
Span(text) == SubSeq(text, SetMin(Opens(text)), SetMax(Closes(text)))

IsJson(text) == JsonLoads(text).ok

\* no attempt parses: not the stripped text, and not the brace span if any
Unparseable(text) ==
    /\ ~IsJson(Strip(text))
    /\ HasSpan(Strip(text)) => ~IsJson(Span(Strip(text)))

\* C4: when neither the stripped text nor its brace span (if it has one)
\* parses, _parse_json raises nothing and returns the fallback it was given,
\* as it was given.
C4_FallbackOnFailure ==
    (pj.done /\ Unparseable(pj.text)) =>
        /\ pj.out.exc = ""
        /\ pj.out.ret = pj.fallback

C4_Witness ==
    /\ pj.done
    /\ pj.text = <<LBrace, Prose, RBrace>>
    /\ pj.fallback = AssessorFallback
    /\ pj.out.ret = AssessorFallback

\* C5: when the stripped text is JSON as a whole, _parse_json returns the
\* value it denotes: the dict of its members when it is a written object,
\* whatever the fallback is, after one json.loads of the stripped text.
C5_WholeTextParsed ==
    (pj.done /\ IsJson(Strip(pj.text))) =>
        /\ pj.out.exc = ""
        /\ pj.out.ret = JsonLoads(Strip(pj.text)).val
        /\ pj.out.loads = <<Strip(pj.text)>>
        /\ \A m \in DocumentObjects :
                Strip(pj.text) = RenderObject(m) => pj.out.ret = PyDict(MembersDict(m))

C5_Witness ==
    /\ pj.done
    /\ pj.text = <<WS>> \o RenderObject(<<<<"urgency_level", PyStr("ROUTINE")>>>>) \o <<WS>>
    /\ pj.fallback = AssessorFallback
    /\ pj.out.ret = PyDict("urgency_level" :> PyStr("ROUTINE"))

\* C6: when the stripped text is not JSON as a whole and its span from the
\* first opening brace through the last closing brace is, _parse_json returns
\* the value of that span: the dict of its members when the span is a
\* written object.
C6_EmbeddedParsed ==
    (pj.done /\ ~IsJson(Strip(pj.text)) /\ HasSpan(Strip(pj.text))
        /\ IsJson(Span(Strip(pj.text)))) =>
        /\ pj.out.exc = ""
        /\ pj.out.ret = JsonLoads(Span(Strip(pj.text))).val
        /\ \A m \in DocumentObjects :
                Span(Strip(pj.text)) = RenderObject(m) =>
                    pj.out.ret = PyDict(MembersDict(m))

C6_Witness ==
    /\ pj.done
    /\ pj.text = <<Prose>>
                 \o RenderObject(<<<<"severity_score", PyInt(9)>>,
                                   <<"urgency_level", PyStr("EMERGENCY")>>>>)
                 \o <<Prose>>
    /\ pj.out.ret = PyDict(("severity_score" :> PyInt(9))
                           @@ ("urgency_level" :> PyStr("EMERGENCY")))

\* the last step of run r
LastStep(r) == trace[r][Len(trace[r])]

\* C7: a run ends with an exception only when a call of the completion
\* service raised: no text the service returns to the message parser or to
\* the assessor makes a node raise.
C7_OnlyServiceFailures ==
    \A r \in Runs : pc[r] = "raised" => LastStep(r).exc = "CompletionServiceError"

\* the assessor of run r returned, and the text it was given
Assessed(r) == Len(trace[r]) >= 2 /\ trace[r][2].exc = ""
AssessorText(r) == heard[r][2]

\* a text that parses to a dict whose urgency_level is missing, and one whose
\* urgency_level is missing or none of the three levels
ParsedRecord(text) == _parse_json(text, PyNone).ret
LacksLevel(text) ==
    /\ ~Unparseable(text)
    /\ ParsedRecord(text).t = "dict"
    /\ "urgency_level" \notin DOMAIN ParsedRecord(text).v
LacksUsableLevel(text) ==
    /\ ~Unparseable(text)
    /\ ParsedRecord(text).t = "dict"
    /\ Get(ParsedRecord(text).v, "urgency_level", PyNone) \notin Levels

MergedByKey ==
    \A r \in Runs :
        Len(trace'[r]) > Len(trace[r]) =>
            LET upd == trace'[r][Len(trace'[r])].upd
            IN  /\ DOMAIN state'[r] = DOMAIN state[r] \cup DOMAIN upd
                /\ \A k \in DOMAIN upd : state'[r][k] = upd[k]
                /\ \A k \in DOMAIN state[r] \ DOMAIN upd : state'[r][k] = state[r][k]

ReadsUpstream ==
    \A r \in Runs :
        LET tr == trace[r]
            n == Len(tr)
        IN  /\ (n >= 2 /\ tr[2].asked # <<>>) =>
                    Contains(tr[2].asked[1], Join(", ", tr[1].upd["symptoms"]).v)
            /\ n >= 3 => tr[3].ret = BranchOf(tr[2].upd)
            /\ (n >= 4 /\ tr[4].exc = "" /\ tr[4].node # "routine") =>
                    Contains(tr[4].upd["escalation_reason"],
                             Format(tr[2].upd["severity_score"]))
            /\ (n >= 5 /\ tr[5].asked # <<>>) =>
                    /\ Contains(tr[5].asked[1],
                                <<" Action taken: ">> \o tr[4].upd["action_taken"].v)
                    /\ Contains(tr[5].asked[1],
                                <<" Details: ">> \o tr[4].upd["escalation_reason"].v)
                    /\ Contains(tr[5].asked[1],
                                <<"/10 Urgency: ">> \o Format(tr[2].upd["urgency_level"]))

C9_MergeBeforeNext == [][MergedByKey]_vars /\ []ReadsUpstream

C9_Witness ==
    /\ pc[1] = END
    /\ state[1]["action_taken"] = PyStr("ESCALATE")
    /\ state[1]["symptoms"] = PyList(<<PyStr("chest pain")>>)
    /\ state[1]["patient_id"] = PyStr("PAT-001")

\* C10: merging the same partial update into a state again gives the state
\* the first merge gave.
C10_MergeIdempotent ==
    \A i \in 1..Len(mg.after) : mg.after[i] = mg.after[1]

C10_Witness ==
    /\ Len(mg.after) >= 2
    /\ "red_flags" \in DOMAIN mg.upd
    /\ mg.upd["red_flags"] = PyList(<<PyStr("chest pain")>>)
    /\ "red_flags" \in DOMAIN mg.s
    /\ mg.s["red_flags"] = PyList(<<PyStr("stiff neck")>>)
    /\ mg.after[2]["red_flags"] = PyList(<<PyStr("chest pain")>>)

\* C11: once assess_urgency has returned, the urgency_level of the state is
\* the value its update held, in every later state of the run up to END, and
\* no later step returns an update with the key urgency_level.
C11_LevelReadOnly ==
    \A r \in Runs :
        Assessed(r) =>
            /\ state[r]["urgency_level"] = trace[r][2].upd["urgency_level"]
            /\ \A i \in 3..Len(trace[r]) : "urgency_level" \notin DOMAIN trace[r][i].upd

C11_Witness ==
    /\ pc[1] = END
    /\ Len(trace[1]) = 5
    /\ trace[1][2].upd["urgency_level"] = PyStr("urgent")
    /\ state[1]["urgency_level"] = PyStr("urgent")
    /\ state[1]["action_taken"] = PyStr("SELF_CARE")

\* the fields the spec gives each node to write
Owned(node) ==
    CASE node = "parse_patient_message" -> {"symptoms", "duration"}
      [] node = "assess_urgency" ->
            {"severity_score", "urgency_level", "red_flags", "confidence"}
      [] node \in Handlers -> {"action_taken", "escalation_reason"}
      [] node = "generate_response" -> {"response"}
      [] OTHER -> {}

\* every update a step returned holds the fields of its node, and only those
WritesOwned ==
    \A r \in Runs : \A i \in 1..Len(trace[r]) :
        LET e == trace[r][i]
        IN  IF e.exc = "" THEN DOMAIN e.upd = Owned(e.node) ELSE DOMAIN e.upd = {}

\* a step of a started run leaves every field its node does not own as it was
FrameKept ==
    \A r \in Runs :
        pc[r] # "idle" =>
            /\ DOMAIN state'[r] = DOMAIN state[r]
            /\ \A k \in DOMAIN state[r] \ Owned(pc[r]) : state'[r][k] = state[r][k]

\* the input fields of a started run are those of the state it was given
InputsKept ==
    \A r \in Runs :
        pc[r] # "idle" =>
            \E input \in SCENARIOS : \A k \in InputKeys : state[r][k] = input[k]

\* C12: each node's update holds exactly the fields the node owns, a step
\* changes no field its node does not own, and the four input fields keep
\* the values the run was started with up to the terminal state.
C12_WritesOwnFields == [][FrameKept]_vars /\ []WritesOwned /\ []InputsKept

C12_Witness ==
    /\ pc[1] = END
    /\ state[1]["patient_id"] = PyStr("PAT-002")
    /\ state[1]["symptoms"] = PyList(<<PyStr("chest pain")>>)
    /\ state[1]["red_flags"] = PyList(<<PyStr("chest pain")>>)
    /\ state[1]["action_taken"] = PyStr("BOOK")
    /\ state[1]["escalation_reason"] # PyStr("")
    /\ state[1]["response"] # PyStr("")

\* C13: for every time datetime.now() returns, the slot of urgent_handler is
\* at 15:00:00.000000; it is on the day after now's when now's hour is 15 or
\* later and on now's day otherwise; it is later than now; and the detail
\* string names 03:00 PM with " today" when the slot is on now's day and with
\* " tomorrow" when it is not.
C13_BookingSlot ==
    (nd.done /\ nd.node = "urgent") =>
        LET reason == nd.out.upd["escalation_reason"]
            word == IF nd.slot.day = nd.now.day THEN " today" ELSE " tomorrow"
            other == IF nd.slot.day = nd.now.day THEN " tomorrow" ELSE " today"
        IN  /\ nd.slot.hour = TargetHour /\ nd.slot.minute = 0 /\ nd.slot.us = 0
            /\ nd.slot.day = IF nd.now.hour >= TargetHour THEN nd.now.day + 1 ELSE nd.now.day
            /\ DtLeq(nd.now, nd.slot) /\ nd.now # nd.slot
            /\ Contains(reason, <<"03:00 PM", word>>)
            /\ ~Contains(reason, <<other>>)

C13_Witness ==
    /\ nd.done /\ nd.node = "urgent"
    /\ nd.now = DateTime(1, TargetHour, 0, 0)
    /\ nd.slot = DateTime(2, TargetHour, 0, 0)
    /\ Contains(nd.out.upd["escalation_reason"], <<"03:00 PM", " tomorrow">>)

\* the state run r was started with
Started(r) == CHOOSE input \in SCENARIOS : \A k \in InputKeys : input[k] = state[r][k]

\* the terminal state of a run executed alone from the input, given the
\* completion texts and the times in the order the run asks for them
Alone(input, texts, times) ==
    LET s1 == Merge(input, parse_patient_message(input, texts[1]).upd)
        s2 == Merge(s1, assess_urgency(s1, texts[2]).upd)
        branch == route_by_urgency(s2)
        s3 == Merge(s2, CASE branch = "emergency" -> emergency_handler(s2).upd
                          [] branch = "urgent" -> urgent_handler(s2, times[1]).upd
                          [] branch = "routine" -> routine_handler(s2).upd)
    IN  Merge(s3, generate_response(s3, texts[3]).upd)

\* a step changes what belongs to one run and nothing of the other
OneRunSteps ==
    \E r \in Runs : \A q \in Runs \ {r} :
        /\ pc'[q] = pc[q] /\ state'[q] = state[q] /\ trace'[q] = trace[q]
        /\ heard'[q] = heard[q] /\ clock'[q] = clock[q]

\* a run at END holds the state it reaches alone
EndsAsAlone ==
    \A r \in Runs : pc[r] = END => state[r] = Alone(Started(r), heard[r], clock[r])

\* C14: in every interleaving of the steps of two runs, a step of one run
\* leaves the other run's position, state, trace, completions and times as
\* they were, and the state of a run at END is the state the run reaches
\* when it is executed alone from its initial state with the completions
\* and the times it was given.
C14_RunsIndependent == [][OneRunSteps]_vars /\ []EndsAsAlone

C14_Witness ==
    /\ pc[1] = END /\ pc[2] = "generate_response"
    /\ state[1]["patient_id"] = PyStr("PAT-001") /\ state[2]["patient_id"] = PyStr("PAT-001")
    /\ state[1]["action_taken"] = PyStr("ESCALATE")
    /\ state[2]["action_taken"] = PyStr("BOOK")
    /\ state[2]["symptoms"] = PyList(<<PyStr("unable to parse")>>)
    /\ state[1]["symptoms"] = PyList(<<PyStr("chest pain")>>)

\* run r is at END after four nodes and three calls of the service, one by
\* the message parser, one by the assessor and one by the composer
Completed(r) ==
    /\ pc[r] = END
    /\ Len(trace[r]) = 5
    /\ <<trace[r][1].node, trace[r][2].node, trace[r][3].node, trace[r][5].node>>
            = <<"parse_patient_message", "assess_urgency", "route_by_urgency",
                "generate_response">>
    /\ trace[r][4].node \in Handlers
    /\ \A i \in {1, 2, 5} : Len(trace[r][i].asked) = 1
    /\ \A i \in {3, 4} : Len(trace[r][i].asked) = 0

\* a call of the service raised in run r
ServiceFailed(r) == pc[r] = "raised" /\ LastStep(r).exc = "CompletionServiceError"

\* C15: when every call of the completion service returns a text, the run
\* eventually stands at END, having executed four nodes and called the
\* service three times, once in each of the message parser, the assessor and
\* the composer.
C15_Terminates == <>(Completed(1) \/ ServiceFailed(1))

\* C16: the response of a run at END is the composer's completion without
\* its leading and trailing whitespace, and it is not the empty string.
C16_ResponseNeverEmpty ==
    \A r \in Runs :
        pc[r] = END =>
            /\ state[r]["response"] = TextStr(Strip(heard[r][3]))
            /\ state[r]["response"] # PyStr("")

\* C17: _parse_json hands the stripped text to json.loads; it hands a second
\* text to json.loads exactly when the first did not parse and the stripped
\* text holds a "{" and a "}" with the last "}" after the first "{", and
\* that second text runs from the first "{" through the last "}"; when the
\* first did not parse and there is no such span, the fallback is returned.
C17_SubstringAttempt ==
    pj.done =>
        LET stripped == Strip(pj.text)
            attempted == Len(pj.out.loads) = 2
        IN  /\ Len(pj.out.loads) \in {1, 2}
            /\ pj.out.loads[1] = stripped
            /\ attempted <=> (~IsJson(stripped) /\ HasSpan(stripped))
            /\ attempted => pj.out.loads[2] = Span(stripped)
            /\ (~IsJson(stripped) /\ ~HasSpan(stripped)) => pj.out.ret = pj.fallback

C17_Witness ==
    /\ pj.done
    /\ pj.text = <<RBrace, Prose, LBrace>>
    /\ pj.out.loads = <<pj.text>>
    /\ pj.out.ret = pj.fallback

\* C18: once assess_urgency has returned, severity_score is an int from 1
\* to 10 and urgency_level is one of "EMERGENCY", "URGENT", "ROUTINE"; once
\* a handler has returned, action_taken is one of "ESCALATE", "BOOK",
\* "SELF_CARE".
C18_ValuesInRange ==
    \A r \in Runs :
        /\ Assessed(r) =>
                /\ state[r]["severity_score"] \in {PyInt(n) : n \in 1..10}
                /\ state[r]["urgency_level"] \in Levels
        /\ (Len(trace[r]) >= 4 /\ trace[r][4].exc = "") =>
                state[r]["action_taken"] \in
                    {PyStr("ESCALATE"), PyStr("BOOK"), PyStr("SELF_CARE")}

\* the completion text parses to a value that is no dict
NonRecord(text) == _parse_json(text, PyEmptyDict).ret.t # "dict"

\* C19: called on an initial state, whose derived and output fields hold
\* their defaults or are absent, or on a state whose fields were set from
\* the fallback records, no node and not the router raises for a field of
\* the state: every prompt is built, every handler and the router return,
\* and a node that calls the service raises only for a completion that
\* parses to a value that is no dict.
C19_DefaultsSuffice ==
    nd.done =>
        /\ nd.node \in LlmNodes => Context(nd.node, nd.s).exc = ""
        /\ nd.out.exc # "" =>
                /\ nd.node \in {"parse_patient_message", "assess_urgency"}
                /\ NonRecord(nd.content)
                /\ nd.out.exc = "AttributeError"
        /\ nd.node = "route_by_urgency" => nd.ret \in Branches

C19_Witness ==
    /\ nd.done
    /\ nd.node = "emergency"
    /\ nd.s \in SCENARIOS
    /\ nd.out.exc = ""
    /\ Contains(nd.out.upd["escalation_reason"], <<"elevated risk">>)

\* the value the spec gives each key a parsed record lacks, and the value it
\* gives it when nothing parsed
KeyDefaults(node) ==
    IF node = "parse_patient_message"
    THEN ("symptoms" :> PyList(<<>>)) @@ ("duration" :> PyStr("not specified"))
    ELSE ("severity_score" :> PyInt(5)) @@ ("urgency_level" :> PyStr("URGENT"))
         @@ ("red_flags" :> PyList(<<>>)) @@ ("confidence" :> PyFloat(5))
FallbackValues(node) ==
    IF node = "parse_patient_message"
    THEN ("symptoms" :> PyList(<<PyStr("unable to parse")>>))
         @@ ("duration" :> PyStr("not specified"))
    ELSE ("severity_score" :> PyInt(6)) @@ ("urgency_level" :> PyStr("URGENT"))
         @@ ("red_flags" :> PyList(<<>>)) @@ ("confidence" :> PyFloat(3))

\* C20: the update parse_patient_message and assess_urgency return for a
\* completion that parses to a record holds, at each of the node's keys, the
\* record's value when the record has the key and the node's default for
\* the key when it has not; for a completion that does not parse it holds
\* the values of the node's fallback record.
C20_PerKeyDefaults ==
    (nd.done /\ nd.node \in {"parse_patient_message", "assess_urgency"} /\ nd.out.exc = "") =>
        LET record == ParsedRecord(nd.content).v
            upd == nd.out.upd
        IN  /\ DOMAIN upd = DOMAIN KeyDefaults(nd.node)
            /\ IF Unparseable(nd.content)
               THEN \A k \in DOMAIN upd : upd[k] = FallbackValues(nd.node)[k]
               ELSE \A k \in DOMAIN upd :
                        upd[k] = IF k \in DOMAIN record THEN record[k]
                                 ELSE KeyDefaults(nd.node)[k]

C20_Witness ==
    /\ nd.done
    /\ nd.node = "assess_urgency"
    /\ nd.content = RenderObject(<<<<"severity_score", PyInt(9)>>>>)
    /\ nd.out.upd = ("severity_score" :> PyInt(9)) @@ ("urgency_level" :> PyStr("URGENT"))
                    @@ ("red_flags" :> PyList(<<>>)) @@ ("confidence" :> PyFloat(5))

=============================================================================
